---- MODULE Spec2Model ----
(***************************************************************************)
(* Jobly: the partial-update statement builder (helpers/sql.js), the       *)
(* filter-query builders of Company.findAll and Job.findAll, the           *)
(* repository operations of the Company and Job models, and the            *)
(* authorization middleware (middleware/auth.js).                          *)
(*                                                                         *)
(* Text is modelled as a sequence of chunks.  A chunk is a string; text    *)
(* that comes from a caller (field names, filter values) is held one       *)
(* character per chunk, text that is a literal of the program is held as   *)
(* the literal.  Render flattens a text to a string.                       *)
(***************************************************************************)
EXTENDS Integers, Sequences, FiniteSets, TLC

(***************************************************************************)
(* Bounds of the model.                                                    *)
(***************************************************************************)
MaxPayload == 2

MaxGuards == 2

MaxCalls == 2

(***************************************************************************)
(* Sequences and text.                                                     *)
(***************************************************************************)
Range(s) == {s[i] : i \in 1..Len(s)}

RECURSIVE Render(_)
Render(text) == IF text = <<>> THEN "" ELSE Head(text) \o Render(Tail(text))

RECURSIVE JoinText(_, _)
JoinText(pieces, sep) ==
    IF pieces = <<>> THEN <<>>
    ELSE IF Len(pieces) = 1 THEN pieces[1]
    ELSE pieces[1] \o sep \o JoinText(Tail(pieces), sep)

DigitChars == <<"0", "1", "2", "3", "4", "5", "6", "7", "8", "9">>

Digits == Range(DigitChars)

DigitValue(c) == (CHOOSE i \in 1..10 : DigitChars[i] = c) - 1

RECURSIVE NumberToText(_)
NumberToText(k) ==
    IF k < 10 THEN <<DigitChars[k + 1]>>
    ELSE NumberToText(k \div 10) \o <<DigitChars[(k % 10) + 1]>>

(***************************************************************************)
(* JavaScript values.  Every value is a record of one shape: t is the      *)
(* type tag, s the characters of a string, n the magnitude of a number or  *)
(* the truth value of a boolean.                                           *)
(***************************************************************************)
Undefined == [t |-> "undefined", s |-> <<>>, n |-> 0]

Null == [t |-> "null", s |-> <<>>, n |-> 0]

NaN == [t |-> "NaN", s |-> <<>>, n |-> 0]

Str(chars) == [t |-> "string", s |-> chars, n |-> 0]

Num(k) == [t |-> "number", s |-> <<>>, n |-> k]

Bool(b) == [t |-> "boolean", s |-> <<>>, n |-> IF b THEN 1 ELSE 0]

IsNaN(v) == v.t = "NaN"

Truthy(v) ==
    CASE v.t = "undefined" -> FALSE
      [] v.t = "null" -> FALSE
      [] v.t = "NaN" -> FALSE
      [] v.t = "string" -> v.s # <<>>
      [] v.t = "number" -> v.n # 0
      [] v.t = "boolean" -> v.n = 1

RECURSIVE TrimLeft(_)
TrimLeft(chars) ==
    IF chars # <<>> /\ Head(chars) = " " THEN TrimLeft(Tail(chars)) ELSE chars

RECURSIVE TrimRight(_)
TrimRight(chars) ==
    IF chars # <<>> /\ chars[Len(chars)] = " "
    THEN TrimRight(SubSeq(chars, 1, Len(chars) - 1))
    ELSE chars

RECURSIVE ParseDigits(_, _)
ParseDigits(chars, acc) ==
    IF chars = <<>> THEN acc
    ELSE ParseDigits(Tail(chars), 10 * acc + DigitValue(Head(chars)))

StringToNumber(chars) ==
    LET trimmed == TrimRight(TrimLeft(chars))
    IN  IF trimmed = <<>> THEN Num(0)
        ELSE IF Range(trimmed) \subseteq Digits THEN Num(ParseDigits(trimmed, 0))
        ELSE NaN

ToNumber(v) ==
    CASE v.t = "undefined" -> NaN
      [] v.t = "null" -> Num(0)
      [] v.t = "NaN" -> NaN
      [] v.t = "string" -> StringToNumber(v.s)
      [] v.t = "number" -> v
      [] v.t = "boolean" -> Num(v.n)

GreaterThan(a, b) == a.t = "number" /\ b.t = "number" /\ a.n > b.n

ToText(v) ==
    CASE v.t = "undefined" -> <<"u", "n", "d", "e", "f", "i", "n", "e", "d">>
      [] v.t = "null" -> <<"n", "u", "l", "l">>
      [] v.t = "NaN" -> <<"N", "a", "N">>
      [] v.t = "string" -> v.s
      [] v.t = "number" -> NumberToText(v.n)
      [] v.t = "boolean" -> IF v.n = 1 THEN <<"t", "r", "u", "e">>
                                         ELSE <<"f", "a", "l", "s", "e">>

(***************************************************************************)
(* JavaScript objects are sequences of <<key, value>> entries in the       *)
(* object's own-key order; a key is a text.                                *)
(***************************************************************************)
ObjectKeys(obj) == [i \in 1..Len(obj) |-> obj[i][1]]

ObjectValues(obj) == [i \in 1..Len(obj) |-> obj[i][2]]

HasKey(obj, key) == \E i \in 1..Len(obj) : obj[i][1] = key

Prop(obj, key) ==
    IF HasKey(obj, key)
    THEN obj[CHOOSE i \in 1..Len(obj) : obj[i][1] = key][2]
    ELSE Undefined

IsObject(obj) == \A i, j \in 1..Len(obj) : obj[i][1] = obj[j][1] => i = j

RECURSIVE SeqsOver(_, _)
SeqsOver(S, k) ==
    IF k = 0 THEN {<<>>}
    ELSE LET shorter == SeqsOver(S, k - 1)
         IN  shorter \cup {Append(q, x) : q \in {r \in shorter : Len(r) = k - 1}, x \in S}

ObjectsFrom(entries, k) == {obj \in SeqsOver(entries, k) : IsObject(obj)}

(***************************************************************************)
(* The names the program uses, as texts.                                   *)
(***************************************************************************)
T_handle == <<"h", "a", "n", "d", "l", "e">>

T_name == <<"n", "a", "m", "e">>

T_description == <<"d", "e", "s", "c", "r", "i", "p", "t", "i", "o", "n">>

T_numEmployees == <<"n", "u", "m", "E", "m", "p", "l", "o", "y", "e", "e", "s">>

T_logoUrl == <<"l", "o", "g", "o", "U", "r", "l">>

T_num_employees == <<"n", "u", "m", "_", "e", "m", "p", "l", "o", "y", "e", "e", "s">>

T_logo_url == <<"l", "o", "g", "o", "_", "u", "r", "l">>

T_id == <<"i", "d">>

T_title == <<"t", "i", "t", "l", "e">>

T_salary == <<"s", "a", "l", "a", "r", "y">>

T_equity == <<"e", "q", "u", "i", "t", "y">>

T_companyHandle == <<"c", "o", "m", "p", "a", "n", "y", "H", "a", "n", "d", "l", "e">>

T_company_handle == <<"c", "o", "m", "p", "a", "n", "y", "_", "h", "a", "n", "d", "l", "e">>

T_firstName == <<"f", "i", "r", "s", "t", "N", "a", "m", "e">>

T_first_name == <<"f", "i", "r", "s", "t", "_", "n", "a", "m", "e">>

T_age == <<"a", "g", "e">>

T_minEmployees == <<"m", "i", "n", "E", "m", "p", "l", "o", "y", "e", "e", "s">>

T_maxEmployees == <<"m", "a", "x", "E", "m", "p", "l", "o", "y", "e", "e", "s">>

T_minSalary == <<"m", "i", "n", "S", "a", "l", "a", "r", "y">>

T_hasEquity == <<"h", "a", "s", "E", "q", "u", "i", "t", "y">>

T_jobs == <<"j", "o", "b", "s">>

T_true == <<"t", "r", "u", "e">>

T_false == <<"f", "a", "l", "s", "e">>

(***************************************************************************)
(* helpers/sql.js                                                          *)
(***************************************************************************)
NoError == ""

ResolvedColumn(jsToSql, colName) ==
    IF Truthy(Prop(jsToSql, colName)) THEN ToText(Prop(jsToSql, colName))
    ELSE colName

SetColPieceZeroBased(jsToSql, colName, idx) ==
    <<"\"">> \o ResolvedColumn(jsToSql, colName) \o <<"\"", "=", "$">>
        \o NumberToText(idx)

SetColPiece(jsToSql, colName, idx) ==
    <<"\"">> \o ResolvedColumn(jsToSql, colName) \o <<"\"", "=", "$">>
        \o NumberToText(idx + 1)

sqlForPartialUpdateInlined(dataToUpdate, jsToSql) ==
    LET keys == ObjectKeys(dataToUpdate)
        cols == [i \in 1..Len(keys) |->
                    <<"\"">> \o ResolvedColumn(jsToSql, keys[i]) \o <<"\"", "=">>
                        \o ToText(dataToUpdate[i][2])]
    IN  IF Len(keys) = 0
        THEN [error |-> "BadRequestError", setCols |-> <<>>, values |-> <<>>]
        ELSE [error |-> NoError, setCols |-> JoinText(cols, <<", ">>), values |-> <<>>]

sqlForPartialUpdateUnchecked(dataToUpdate, jsToSql) ==
    LET keys == ObjectKeys(dataToUpdate)
        cols == [i \in 1..Len(keys) |-> SetColPiece(jsToSql, keys[i], i - 1)]
    IN  [error |-> NoError,
         setCols |-> JoinText(cols, <<", ">>),
         values |-> ObjectValues(dataToUpdate)]

sqlForPartialUpdate(dataToUpdate, jsToSql) ==
    LET keys == ObjectKeys(dataToUpdate)
        cols == [i \in 1..Len(keys) |-> SetColPiece(jsToSql, keys[i], i - 1)]
    IN  IF Len(keys) = 0
        THEN [error |-> "BadRequestError", setCols |-> <<>>, values |-> <<>>]
        ELSE [error |-> NoError,
              setCols |-> JoinText(cols, <<", ">>),
              values |-> ObjectValues(dataToUpdate)]

(***************************************************************************)
(* models/company.js, models/job.js: the filter-query builders.  A builder *)
(* state is the triple of locals whereCondition, values, index.            *)
(***************************************************************************)
EmptyObject == <<>>

NoFilter == [whereCondition |-> <<>>, values |-> <<>>, index |-> 1]

WhereOrAndSwapped(whereCondition) ==
    whereCondition \o (IF whereCondition # <<>> THEN <<"WHERE ">> ELSE <<" AND ">>)

WhereOrAnd(whereCondition) ==
    whereCondition \o (IF whereCondition # <<>> THEN <<" AND ">> ELSE <<"WHERE ">>)

IndexedClauseSameIndex(b, clause) ==
    [b EXCEPT !.whereCondition = @ \o <<clause, "$">> \o NumberToText(b.index)]

IndexedClause(b, clause) ==
    [b EXCEPT !.whereCondition = @ \o <<clause, "$">> \o NumberToText(b.index),
              !.index = @ + 1]

handleWhereOrAndFalsy(b, val, isNumber, clause) ==
    IF ~Truthy(val) THEN b
    ELSE IndexedClause(
            [b EXCEPT !.whereCondition = WhereOrAnd(@),
                      !.values = Append(@, IF isNumber THEN ToNumber(val)
                                           ELSE Str(<<"%">> \o ToText(val) \o <<"%">>))],
            clause)

handleWhereOrAnd(b, val, isNumber, clause) ==
    IF val = Undefined THEN b
    ELSE IndexedClause(
            [b EXCEPT !.whereCondition = WhereOrAnd(@),
                      !.values = Append(@, IF isNumber THEN ToNumber(val)
                                           ELSE Str(<<"%">> \o ToText(val) \o <<"%">>))],
            clause)

CompanyRangeInvalid(minEmployees, maxEmployees) ==
    /\ Truthy(minEmployees) /\ Truthy(maxEmployees)
    /\ GreaterThan(ToNumber(minEmployees), ToNumber(maxEmployees))

CompanyWhere(filterOptions) ==
    LET name == Prop(filterOptions, T_name)
        minEmployees == Prop(filterOptions, T_minEmployees)
        maxEmployees == Prop(filterOptions, T_maxEmployees)
        b1 == handleWhereOrAnd(NoFilter, name, FALSE, "name ILIKE ")
        b2 == handleWhereOrAnd(b1, minEmployees, TRUE, "num_employees >= ")
    IN  handleWhereOrAnd(b2, maxEmployees, TRUE, "num_employees <= ")

JobHasEquityTruthy(filterOptions) == Truthy(Prop(filterOptions, T_hasEquity))

JobHasEquity(filterOptions) == Prop(filterOptions, T_hasEquity) = Str(T_true)

JobFilterInvalid(minSalary) == Truthy(minSalary) /\ IsNaN(ToNumber(minSalary))

JobTitleClause(b, title) ==
    IF Truthy(title)
    THEN [IndexedClause([b EXCEPT !.whereCondition = WhereOrAnd(@)], "title ILIKE ")
            EXCEPT !.values = Append(@, Str(<<"%">> \o ToText(title) \o <<"%">>))]
    ELSE b

JobSalaryClause(b, minSalary) ==
    IF Truthy(minSalary)
    THEN [IndexedClause([b EXCEPT !.whereCondition = WhereOrAnd(@)], "salary >= ")
            EXCEPT !.values = Append(@, minSalary)]
    ELSE b

JobEquityClause(b, hasEquity) ==
    IF hasEquity
    THEN [b EXCEPT !.whereCondition = WhereOrAnd(@) \o <<"equity > 0">>]
    ELSE b

JobWhere(filterOptions) ==
    LET title == Prop(filterOptions, T_title)
        minSalary == Prop(filterOptions, T_minSalary)
    IN  JobEquityClause(JobSalaryClause(JobTitleClause(NoFilter, title), minSalary),
                        JobHasEquity(filterOptions))

(***************************************************************************)
(* The store.  A table is a set of rows, a row a function from the         *)
(* table's column names to values.  db.query is modelled by the statement  *)
(* kinds the models issue; an UPDATE is executed from its text: the SET    *)
(* list is parsed back into (column, placeholder) pairs and the            *)
(* placeholders are bound to the value list by position.  The schema is    *)
(* not part of the sources: the only constraint modelled is the primary    *)
(* key of each table.                                                      *)
(***************************************************************************)
CompanyCols == {T_handle, T_name, T_description, T_num_employees, T_logo_url}

JobCols == {T_id, T_title, T_salary, T_equity, T_company_handle}

CompanyReturning ==
    "handle, name, description, num_employees AS \"numEmployees\", logo_url AS \"logoUrl\""

JobReturning == "id, title, salary, equity, company_handle AS \"companyHandle\""

CompanyRecord(row) ==
    << <<T_handle, row[T_handle]>>, <<T_name, row[T_name]>>,
       <<T_description, row[T_description]>>,
       <<T_numEmployees, row[T_num_employees]>>,
       <<T_logoUrl, row[T_logo_url]>> >>

JobRecord(row) ==
    << <<T_id, row[T_id]>>, <<T_title, row[T_title]>>, <<T_salary, row[T_salary]>>,
       <<T_equity, row[T_equity]>>, <<T_companyHandle, row[T_company_handle]>> >>

Statement(sql, values) == [sql |-> sql, values |-> values]

IndexOf(text, chunk) ==
    IF \E i \in 1..Len(text) : text[i] = chunk
    THEN CHOOSE i \in 1..Len(text) :
            text[i] = chunk /\ \A j \in 1..(i - 1) : text[j] # chunk
    ELSE 0

RECURSIVE LeadingDigits(_)
LeadingDigits(text) ==
    IF text # <<>> /\ Head(text) \in Digits
    THEN <<Head(text)>> \o LeadingDigits(Tail(text))
    ELSE <<>>

ParseFailed == [ok |-> FALSE, items |-> <<>>]

ParsedAssignment(text, close, after, digits) ==
    [ok |-> /\ close >= 3 /\ Len(after) >= 3 /\ after[1] = "=" /\ after[2] = "$"
            /\ digits # <<>>,
     item |-> [col |-> SubSeq(text, 2, close - 1), ph |-> ParseDigits(digits, 0)],
     rest |-> SubSeq(after, 3 + Len(digits), Len(after))]

ParsePlaceholder(text, close, after) ==
    ParsedAssignment(text, close, after, LeadingDigits(SubSeq(after, 3, Len(after))))

ParseQuoted(text, close) ==
    ParsePlaceholder(text, close, SubSeq(text, close + 1, Len(text)))

ParseAssignment(text) ==
    IF Len(text) < 5 \/ text[1] # "\"" THEN [ok |-> FALSE, item |-> <<>>, rest |-> <<>>]
    ELSE ParseQuoted(text, IndexOf(Tail(text), "\"") + 1)

Prepend(item, parsed) ==
    IF parsed.ok THEN [ok |-> TRUE, items |-> <<item>> \o parsed.items] ELSE ParseFailed

RECURSIVE ParseSetList(_)
ParseAssignments(first) ==
    IF ~first.ok THEN ParseFailed
    ELSE IF first.rest = <<>> THEN [ok |-> TRUE, items |-> <<first.item>>]
    ELSE IF Head(first.rest) # ", " THEN ParseFailed
    ELSE Prepend(first.item, ParseSetList(Tail(first.rest)))

ParseSetList(text) == ParseAssignments(ParseAssignment(text))

ParsedUpdate(sql, w, set, digits) ==
    [ok |-> w > 4 /\ set.ok /\ digits # <<>>,
     items |-> set.items,
     pk |-> IF w > 0 THEN sql[w + 1] ELSE "",
     ph |-> ParseDigits(digits, 0)]

ParseUpdateAt(sql, w) ==
    ParsedUpdate(sql, w, ParseSetList(SubSeq(sql, 4, w - 1)),
                 LeadingDigits(SubSeq(sql, w + 4, Len(sql))))

ParseUpdate(sql) == ParseUpdateAt(sql, IndexOf(sql, " WHERE "))

PkText(pk) == IF pk = "handle" THEN T_handle ELSE T_id

AssignedFirstValue(row, items, values) ==
    [c \in DOMAIN row |->
        IF \E i \in 1..Len(items) : items[i].col = c THEN values[1] ELSE row[c]]

Assigned(row, items, values) ==
    [c \in DOMAIN row |->
        IF \E i \in 1..Len(items) : items[i].col = c
        THEN values[items[CHOOSE i \in 1..Len(items) : items[i].col = c].ph]
        ELSE row[c]]

ValidUpdate(u, cols, values) ==
    /\ u.ok
    /\ u.ph \in 1..Len(values)
    /\ \A i \in 1..Len(u.items) :
            u.items[i].col \in cols /\ u.items[i].ph \in 1..Len(values)
    /\ \A i, j \in 1..Len(u.items) : u.items[i].col = u.items[j].col => i = j

ViolatesPrimaryKey(table, key, value) == \E r \in table : r[key] = value

StoreError(table) == [error |-> "StoreError", table |-> table, rows |-> {}]

Constrained(table, pk, after, rows) ==
    IF \/ Cardinality(after) # Cardinality(table)
       \/ \E r1, r2 \in after : r1[pk] = r2[pk] /\ r1 # r2
       \/ \E r \in after : r[pk].t \in {"null", "undefined"}
    THEN StoreError(table)
    ELSE [error |-> NoError, table |-> after, rows |-> rows]

UpdateRows(table, pk, hit, items, values) ==
    Constrained(table, pk,
                (table \ hit) \cup {Assigned(r, items, values) : r \in hit},
                {Assigned(r, items, values) : r \in hit})

ExecParsed(table, cols, values, u) ==
    IF ~ValidUpdate(u, cols, values) THEN StoreError(table)
    ELSE UpdateRows(table, PkText(u.pk),
                    {r \in table : r[PkText(u.pk)] = values[u.ph]}, u.items, values)

ExecUpdate(table, cols, stmt) ==
    ExecParsed(table, cols, stmt.values, ParseUpdate(stmt.sql))

(***************************************************************************)
(* State.  companies, jobs and jobSeq are the store (jobSeq is the serial  *)
(* that numbers the jobs); op, args, outcome and queries describe the last *)
(* call of a repository operation or builder: its name, its arguments, the *)
(* value it returned or the error it threw, and the statements it passed   *)
(* to db.query; calls counts the calls made so far; req is the request     *)
(* travelling through the middleware.                                      *)
(***************************************************************************)
VARIABLES companies, jobs, jobSeq, op, args, outcome, queries, calls, req

vars == <<companies, jobs, jobSeq, op, args, outcome, queries, calls, req>>

store == <<companies, jobs, jobSeq>>

Returned(value) == [error |-> NoError, value |-> value]

Threw(error) == [error |-> error, value |-> <<>>]

HandleC1 == Str(<<"c", "1">>)

HandleC2 == Str(<<"c", "2">>)

Nope == Str(<<"n", "o", "p", "e">>)

CompanyRow(handle, name, description, numEmployees, logoUrl) ==
    (T_handle :> handle) @@ (T_name :> name) @@ (T_description :> description)
        @@ (T_num_employees :> numEmployees) @@ (T_logo_url :> logoUrl)

JobRow(id, title, salary, equity, companyHandle) ==
    (T_id :> id) @@ (T_title :> title) @@ (T_salary :> salary)
        @@ (T_equity :> equity) @@ (T_company_handle :> companyHandle)

NewCompany(handle) ==
    << <<T_handle, handle>>, <<T_name, Str(<<"N">>)>>,
       <<T_description, Str(<<"D">>)>>, <<T_numEmployees, Num(1)>>,
       <<T_logoUrl, Str(<<"L">>)>> >>

NewJob ==
    << <<T_title, Str(<<"j">>)>>, <<T_salary, Num(8)>>, <<T_equity, Str(<<"0">>)>>,
       <<T_companyHandle, HandleC1>> >>

NoRequest ==
    [pc |-> "idle",
     header |-> [present |-> FALSE, signed |-> FALSE, wellFormed |-> FALSE,
                 payload |-> <<>>],
     username |-> Str(<<>>), guards |-> <<>>, idx |-> 1,
     user |-> [present |-> FALSE, payload |-> <<>>], error |-> "",
     evaluated |-> <<>>, handled |-> FALSE]

StoreInit ==
    /\ companies = {CompanyRow(HandleC1, Str(<<"N">>), Str(<<"D">>), Num(1), Str(<<"L">>)),
                    CompanyRow(HandleC2, Str(<<"N">>), Str(<<"D">>), Num(1), Str(<<"L">>))}
    /\ jobs = {JobRow(Num(1), Str(<<"j">>), Num(8), Str(<<"0">>), HandleC1)}
    /\ jobSeq = 1

Init ==
    /\ StoreInit
    /\ op = "none"
    /\ args = <<>>
    /\ outcome = Returned(<<>>)
    /\ queries = <<>>
    /\ calls = 0
    /\ req = NoRequest

(***************************************************************************)
(* models/company.js                                                       *)
(***************************************************************************)
CompanyJsToSql ==
    << <<T_numEmployees, Str(T_num_employees)>>, <<T_logoUrl, Str(T_logo_url)>> >>

UpdateSql(table, setCols, pk, varIdx, returning) ==
    <<"UPDATE ", table, " SET ">> \o setCols \o <<" WHERE ", pk, " = ">> \o varIdx
        \o <<" RETURNING ", returning>>

VarIdxNoIncrement(values) == <<"$">> \o NumberToText(Len(values))

VarIdx(values) == <<"$">> \o NumberToText(Len(values) + 1)

CompanyCreateUnchecked(data) ==
    /\ calls < MaxCalls
    /\ calls' = calls + 1
    /\ op' = "Company.create"
    /\ args' = [data |-> data]
    /\ queries' = <<>>
    /\ companies' = companies \cup
            {CompanyRow(Prop(data, T_handle), Prop(data, T_name), Prop(data, T_description),
                        Prop(data, T_numEmployees), Prop(data, T_logoUrl))}
    /\ outcome' = Returned(data)
    /\ UNCHANGED <<jobs, jobSeq, req>>

CompanyCreate(data) ==
    LET handle == Prop(data, T_handle)
        duplicateCheck == Statement(<<"SELECT handle FROM companies WHERE handle = $1">>,
                                    <<handle>>)
        insert == Statement(
            <<"INSERT INTO companies (handle, name, description, num_employees, logo_url) VALUES ($1, $2, $3, $4, $5) RETURNING ",
              CompanyReturning>>,
            <<handle, Prop(data, T_name), Prop(data, T_description),
              Prop(data, T_numEmployees), Prop(data, T_logoUrl)>>)
        row == CompanyRow(insert.values[1], insert.values[2], insert.values[3],
                          insert.values[4], insert.values[5])
    IN  /\ calls < MaxCalls
        /\ calls' = calls + 1
        /\ op' = "Company.create"
        /\ args' = [data |-> data]
        /\ IF \E r \in companies : r[T_handle] = handle
           THEN /\ queries' = <<duplicateCheck>>
                /\ outcome' = Threw("BadRequestError")
                /\ UNCHANGED companies
           ELSE /\ queries' = <<duplicateCheck, insert>>
                /\ companies' = companies \cup {row}
                /\ outcome' = Returned(CompanyRecord(row))
        /\ UNCHANGED <<jobs, jobSeq, req>>

ExecutedUnchecked(stmt, result, record) ==
    [queries |-> <<stmt>>,
     outcome |-> IF result.error # NoError THEN Threw(result.error) ELSE Returned(record),
     table |-> result.table]

Executed(stmt, result, record) ==
    [queries |-> <<stmt>>,
     outcome |-> IF result.error # NoError THEN Threw(result.error)
                 ELSE IF result.rows = {} THEN Threw("NotFoundError")
                 ELSE Returned(record),
     table |-> result.table]

NotExecuted(table, error) ==
    [queries |-> <<>>, outcome |-> Threw(error), table |-> table]

CompanyUpdated(stmt, result) ==
    Executed(stmt, result,
             IF result.rows = {} THEN <<>> ELSE CompanyRecord(CHOOSE r \in result.rows : TRUE))

CompanyUpdateStmt(stmt) == CompanyUpdated(stmt, ExecUpdate(companies, CompanyCols, stmt))

CompanyUpdateBuilt(handle, built) ==
    IF built.error # NoError THEN NotExecuted(companies, built.error)
    ELSE CompanyUpdateStmt(
            Statement(UpdateSql("companies", built.setCols, "handle",
                                VarIdx(built.values), CompanyReturning),
                      built.values \o <<handle>>))

CompanyUpdateCall(handle, data) ==
    CompanyUpdateBuilt(handle, sqlForPartialUpdate(data, CompanyJsToSql))

CompanyUpdate(handle, data) ==
    LET call == CompanyUpdateCall(handle, data)
    IN  /\ calls < MaxCalls
        /\ calls' = calls + 1
        /\ op' = "Company.update"
        /\ args' = [id |-> handle, data |-> data]
        /\ queries' = call.queries
        /\ companies' = call.table
        /\ outcome' = call.outcome
        /\ UNCHANGED <<jobs, jobSeq, req>>

JsonAgg(joined) ==
    {[i \in 1..Len(order) |->
        << <<T_id, order[i][T_id]>>, <<T_title, order[i][T_title]>>,
           <<T_salary, order[i][T_salary]>>, <<T_equity, order[i][T_equity]>> >>] :
        order \in {o \in SeqsOver(joined, Cardinality(joined)) :
                        Len(o) = Cardinality(joined) /\ Range(o) = joined}}

LeftJoin(handle) ==
    IF \E j \in jobs : j[T_company_handle] = handle
    THEN {j \in jobs : j[T_company_handle] = handle}
    ELSE {JobRow(Null, Null, Null, Null, Null)}

CompanyGet(handle) ==
    /\ calls < MaxCalls
    /\ calls' = calls + 1
    /\ op' = "Company.get"
    /\ args' = [id |-> handle]
    /\ queries' = <<Statement(
            <<"SELECT c.handle, c.name, c.description, c.num_employees AS \"numEmployees\", c.logo_url AS \"logoUrl\", JSON_AGG(JSON_BUILD_OBJECT('id', j.id, 'title', j.title, 'salary', j.salary, 'equity', j.equity)) AS jobs FROM companies c LEFT JOIN jobs j ON j.company_handle = c.handle WHERE c.handle = $1 GROUP BY handle">>,
            <<handle>>)>>
    /\ IF \E c \in companies : c[T_handle] = handle
       THEN \E agg \in JsonAgg(LeftJoin(handle)) :
                outcome' = Returned(
                    CompanyRecord(CHOOSE c \in companies : c[T_handle] = handle)
                        \o << <<T_jobs, agg>> >>)
       ELSE outcome' = Threw("NotFoundError")
    /\ UNCHANGED <<store, req>>

CompanyRemoveSilent(handle) ==
    /\ calls < MaxCalls
    /\ calls' = calls + 1
    /\ op' = "Company.remove"
    /\ args' = [id |-> handle]
    /\ queries' = <<>>
    /\ companies' = {r \in companies : r[T_handle] # handle}
    /\ outcome' = Returned(Undefined)
    /\ UNCHANGED <<jobs, jobSeq, req>>

CompanyRemove(handle) ==
    LET stmt == Statement(<<"DELETE FROM companies WHERE handle = $1 RETURNING handle">>,
                          <<handle>>)
        hit == {r \in companies : r[T_handle] = stmt.values[1]}
    IN  /\ calls < MaxCalls
        /\ calls' = calls + 1
        /\ op' = "Company.remove"
        /\ args' = [id |-> handle]
        /\ queries' = <<stmt>>
        /\ companies' = companies \ hit
        /\ outcome' = IF hit = {} THEN Threw("NotFoundError") ELSE Returned(Undefined)
        /\ UNCHANGED <<jobs, jobSeq, req>>

(***************************************************************************)
(* models/job.js                                                           *)
(***************************************************************************)
JobJsToSql == EmptyObject

JobCreate(data) ==
    LET insert == Statement(
            <<"INSERT INTO jobs (title, salary, equity, company_handle) VALUES ($1, $2, $3, $4) RETURNING ",
              JobReturning>>,
            <<Prop(data, T_title), Prop(data, T_salary), Prop(data, T_equity),
              Prop(data, T_companyHandle)>>)
        row == JobRow(Num(jobSeq + 1), insert.values[1], insert.values[2],
                      insert.values[3], insert.values[4])
    IN  /\ calls < MaxCalls
        /\ calls' = calls + 1
        /\ op' = "Job.create"
        /\ args' = [data |-> data]
        /\ queries' = <<insert>>
        /\ jobSeq' = jobSeq + 1
        /\ IF ViolatesPrimaryKey(jobs, T_id, Num(jobSeq + 1))
           THEN /\ outcome' = Threw("StoreError")
                /\ UNCHANGED jobs
           ELSE /\ jobs' = jobs \cup {row}
                /\ outcome' = Returned(JobRecord(row))
        /\ UNCHANGED <<companies, req>>

JobGet(id) ==
    /\ calls < MaxCalls
    /\ calls' = calls + 1
    /\ op' = "Job.get"
    /\ args' = [id |-> id]
    /\ queries' = <<Statement(
            <<"SELECT id, title, salary, equity, company_handle AS \"companyHandle\" FROM jobs WHERE id = $1">>,
            <<id>>)>>
    /\ outcome' = IF \E j \in jobs : j[T_id] = id
                  THEN Returned(JobRecord(CHOOSE j \in jobs : j[T_id] = id))
                  ELSE Threw("NotFoundError")
    /\ UNCHANGED <<store, req>>

JobUpdated(stmt, result) ==
    Executed(stmt, result,
             IF result.rows = {} THEN <<>> ELSE JobRecord(CHOOSE r \in result.rows : TRUE))

JobUpdateStmt(stmt) == JobUpdated(stmt, ExecUpdate(jobs, JobCols, stmt))

JobUpdateBuilt(id, built) ==
    IF built.error # NoError THEN NotExecuted(jobs, built.error)
    ELSE JobUpdateStmt(
            Statement(UpdateSql("jobs", built.setCols, "id", VarIdx(built.values),
                                JobReturning),
                      built.values \o <<id>>))

JobUpdateCall(id, data) == JobUpdateBuilt(id, sqlForPartialUpdate(data, JobJsToSql))

JobUpdate(id, data) ==
    LET call == JobUpdateCall(id, data)
    IN  /\ calls < MaxCalls
        /\ calls' = calls + 1
        /\ op' = "Job.update"
        /\ args' = [id |-> id, data |-> data]
        /\ queries' = call.queries
        /\ jobs' = call.table
        /\ outcome' = call.outcome
        /\ UNCHANGED <<companies, jobSeq, req>>

JobRemove(id) ==
    LET stmt == Statement(<<"DELETE FROM jobs WHERE id = $1 RETURNING id">>, <<id>>)
        hit == {r \in jobs : r[T_id] = stmt.values[1]}
    IN  /\ calls < MaxCalls
        /\ calls' = calls + 1
        /\ op' = "Job.remove"
        /\ args' = [id |-> id]
        /\ queries' = <<stmt>>
        /\ jobs' = jobs \ hit
        /\ outcome' = IF hit = {} THEN Threw("NotFoundError") ELSE Returned(Undefined)
        /\ UNCHANGED <<companies, jobSeq, req>>

(***************************************************************************)
(* The calls explored.                                                     *)
(***************************************************************************)
Handles == {HandleC1, HandleC2, Nope}

JobIds == {Num(0), Num(1), Num(2)}

CompanyEntries ==
    {<<T_name, Str(<<"M">>)>>, <<T_name, Null>>,
     <<T_numEmployees, Num(7)>>, <<T_numEmployees, Null>>}

JobEntries ==
    {<<T_title, Str(<<"k">>)>>, <<T_title, Null>>,
     <<T_salary, Num(9)>>, <<T_salary, Null>>}

CompanyData ==
    ObjectsFrom(CompanyEntries, MaxPayload)
        \cup {<< <<T_handle, Nope>> >>, << <<T_name, Str(<<"M">>)>>, <<T_handle, HandleC2>> >>}

JobData ==
    ObjectsFrom(JobEntries, MaxPayload)
        \cup {<< <<T_id, Num(0)>> >>, << <<T_title, Str(<<"k">>)>>, <<T_id, Num(2)>> >>}

Next ==
    \/ \E handle \in {HandleC1, HandleC2} : CompanyCreate(NewCompany(handle))
    \/ \E handle \in Handles, data \in CompanyData : CompanyUpdate(handle, data)
    \/ \E handle \in Handles : CompanyGet(handle)
    \/ \E handle \in Handles : CompanyRemove(handle)
    \/ JobCreate(NewJob)
    \/ \E id \in JobIds, data \in JobData : JobUpdate(id, data)
    \/ \E id \in JobIds : JobGet(id)
    \/ \E id \in JobIds : JobRemove(id)

Spec == Init /\ [][Next]_vars

(***************************************************************************)
(* The builders on their own.  sqlForPartialUpdate is a pure function and  *)
(* the findAll operations read the store without changing it, so each is   *)
(* explored as one call: the initial state holds the call to make, the     *)
(* action makes it.  The rows a SELECT returns are not modelled.           *)
(***************************************************************************)
CompanySelect(whereCondition) ==
    <<"SELECT handle, name, description, num_employees AS \"numEmployees\", logo_url AS \"logoUrl\" FROM companies ">>
        \o whereCondition \o <<" ORDER BY name">>

JobSelect(whereCondition) ==
    <<"SELECT id, title, salary, equity, company_handle AS \"companyHandle\" FROM jobs ">>
        \o whereCondition \o <<" ORDER BY title">>

Rows == <<"rows">>

ExecSelect(stmt) ==
    IF \E i \in 1..Len(stmt.values) : IsNaN(stmt.values[i])
    THEN Threw("StoreError")
    ELSE Returned(Rows)

FilterOptions(call) == IF call.given THEN call.filterOptions ELSE EmptyObject

SqlForPartialUpdateCall ==
    LET built == sqlForPartialUpdate(args.dataToUpdate, args.jsToSql)
    IN  /\ op = "pending" /\ args.fn = "sqlForPartialUpdate"
        /\ op' = "sqlForPartialUpdate"
        /\ outcome' = IF built.error # NoError THEN Threw(built.error)
                      ELSE Returned([setCols |-> built.setCols, values |-> built.values])
        /\ UNCHANGED <<store, args, queries, calls, req>>

CompanyFindAll ==
    LET filterOptions == FilterOptions(args)
        built == CompanyWhere(filterOptions)
        stmt == Statement(CompanySelect(built.whereCondition), built.values)
    IN  /\ op = "pending" /\ args.fn = "Company.findAll"
        /\ op' = "Company.findAll"
        /\ IF CompanyRangeInvalid(Prop(filterOptions, T_minEmployees),
                                  Prop(filterOptions, T_maxEmployees))
           THEN /\ outcome' = Threw("BadRequestError")
                /\ queries' = <<>>
           ELSE /\ outcome' = ExecSelect(stmt)
                /\ queries' = <<stmt>>
        /\ UNCHANGED <<store, args, calls, req>>

JobFindAll ==
    LET filterOptions == FilterOptions(args)
        built == JobWhere(filterOptions)
        stmt == Statement(JobSelect(built.whereCondition), built.values)
    IN  /\ op = "pending" /\ args.fn = "Job.findAll"
        /\ op' = "Job.findAll"
        /\ IF JobFilterInvalid(Prop(filterOptions, T_minSalary))
           THEN /\ outcome' = Threw("BadRequestError")
                /\ queries' = <<>>
           ELSE /\ outcome' = ExecSelect(stmt)
                /\ queries' = <<stmt>>
        /\ UNCHANGED <<store, args, calls, req>>

TextValues == {Undefined, Str(<<>>), Str(<<"a">>), Num(2)}

NumericValues ==
    {Undefined, Null, Str(<<>>), Str(<<"0">>), Str(<<"3">>), Str(<<"x">>),
     Num(0), Num(3), Num(5)}

FlagValues == {Undefined, Str(T_true), Str(T_false), Bool(TRUE), Bool(FALSE), Num(1)}

CompanyFilterEntries ==
    ({T_name} \X TextValues) \cup ({T_minEmployees, T_maxEmployees} \X NumericValues)

JobFilterEntries ==
    ({T_title} \X TextValues) \cup ({T_minSalary} \X NumericValues)
        \cup ({T_hasEquity} \X FlagValues)

UpdateEntries ==
    {T_firstName, T_age, T_numEmployees, T_name, <<"a", "\"", "b">>}
        \X {Str(<<"B">>), Num(5), Null}

FieldMapEntries ==
    << <<T_firstName, Str(T_first_name)>>, <<T_numEmployees, Str(T_num_employees)>>,
       <<T_logoUrl, Str(T_logo_url)>> >>

FieldMaps ==
    {SelectSeq(FieldMapEntries, LAMBDA e : e \in keep) : keep \in SUBSET Range(FieldMapEntries)}

FindAllCalls(fn, entries) ==
    {[fn |-> fn, given |-> FALSE, filterOptions |-> EmptyObject]}
        \cup {[fn |-> fn, given |-> TRUE, filterOptions |-> f] : f \in ObjectsFrom(entries, 3)}

BuildCalls ==
    {[fn |-> "sqlForPartialUpdate", dataToUpdate |-> d, jsToSql |-> m] :
        d \in ObjectsFrom(UpdateEntries, MaxPayload), m \in FieldMaps}
        \cup FindAllCalls("Company.findAll", CompanyFilterEntries)
        \cup FindAllCalls("Job.findAll", JobFilterEntries)

InitBuild ==
    /\ StoreInit
    /\ op = "pending"
    /\ args \in BuildCalls
    /\ outcome = Returned(<<>>)
    /\ queries = <<>>
    /\ calls = 0
    /\ req = NoRequest

NextBuild == SqlForPartialUpdateCall \/ CompanyFindAll \/ JobFindAll

SpecBuild == InitBuild /\ [][NextBuild]_vars

(***************************************************************************)
(* middleware/auth.js.  A request carries an authorization header (or      *)
(* none), the username path parameter and the guards of its route; user is *)
(* res.locals.user.  jsonwebtoken's verify returns the payload of a token  *)
(* signed with the secret and throws for any other token.  The dispatch of *)
(* the guards (next() runs the next guard, next(err) ends the request) and *)
(* the route handler are the framework's and the routes'.                  *)
(***************************************************************************)
NoUser == [present |-> FALSE, payload |-> EmptyObject]

User(payload) == [present |-> TRUE, payload |-> payload]

T_username == <<"u", "s", "e", "r", "n", "a", "m", "e">>

T_isAdmin == <<"i", "s", "A", "d", "m", "i", "n">>

U1 == Str(<<"u", "1">>)

U2 == Str(<<"u", "2">>)

U3 == Str(<<"u", "3">>)

Payloads ==
    {<< <<T_username, U1>>, <<T_isAdmin, Bool(FALSE)>> >>,
     << <<T_username, U2>>, <<T_isAdmin, Bool(TRUE)>> >>,
     << <<T_username, U3>> >>}

NoHeader == [present |-> FALSE, signed |-> FALSE, wellFormed |-> FALSE, payload |-> EmptyObject]

Headers ==
    {NoHeader}
        \cup {[present |-> TRUE, signed |-> TRUE, wellFormed |-> TRUE, payload |-> pl] :
                pl \in Payloads}
        \cup {[present |-> TRUE, signed |-> FALSE, wellFormed |-> TRUE,
               payload |-> << <<T_username, U1>>, <<T_isAdmin, Bool(TRUE)>> >>],
              [present |-> TRUE, signed |-> FALSE, wellFormed |-> FALSE,
               payload |-> EmptyObject]}

JwtVerify(header) ==
    IF header.wellFormed /\ header.signed
    THEN [error |-> NoError, payload |-> header.payload]
    ELSE [error |-> "JsonWebTokenError", payload |-> EmptyObject]

authenticateJWTUnverified(header, user) ==
    IF header.present
    THEN [error |-> NoError, user |-> User(header.payload)]
    ELSE [error |-> NoError, user |-> user]

authenticateJWT(header, user) ==
    IF header.present /\ JwtVerify(header).error = NoError
    THEN [error |-> NoError, user |-> User(JwtVerify(header).payload)]
    ELSE [error |-> NoError, user |-> user]

ensureLoggedInSkipped(user, username) == NoError

ensureLoggedIn(user, username) ==
    IF ~user.present THEN "UnauthorizedError" ELSE NoError

ensureIsAdminUnchecked(user, username) ==
    IF ~user.present THEN "TypeError" ELSE NoError

ensureIsAdmin(user, username) ==
    IF ~user.present THEN "TypeError"
    ELSE IF ~Truthy(Prop(user.payload, T_isAdmin)) THEN "ForbiddenError"
    ELSE NoError

ensureAdminOrRightUserAdminOnly(user, username) ==
    IF ~user.present THEN "TypeError"
    ELSE IF ~Truthy(Prop(user.payload, T_isAdmin)) THEN "ForbiddenError" ELSE NoError

ensureAdminOrRightUser(user, username) ==
    IF ~user.present THEN "TypeError"
    ELSE LET isAdmin == Prop(user.payload, T_isAdmin)
             isRightUser == username = Prop(user.payload, T_username)
         IN  IF ~Truthy(isAdmin) /\ ~isRightUser THEN "ForbiddenError" ELSE NoError

GuardNames == {"ensureLoggedIn", "ensureIsAdmin", "ensureAdminOrRightUser"}

NewRequest(header, username, guards) ==
    /\ req.pc \in {"idle", "allowed", "denied"}
    /\ req' = [pc |-> "authenticateJWT", header |-> header, username |-> username,
               guards |-> guards, idx |-> 1, user |-> NoUser, error |-> NoError,
               evaluated |-> <<>>, handled |-> FALSE]
    /\ UNCHANGED <<store, op, args, outcome, queries, calls>>

AuthenticateJWT ==
    LET result == authenticateJWT(req.header, req.user)
    IN  /\ req.pc = "authenticateJWT"
        /\ req' = [req EXCEPT !.user = result.user,
                              !.pc = IF result.error = NoError THEN "guards" ELSE "denied",
                              !.error = result.error]
        /\ UNCHANGED <<store, op, args, outcome, queries, calls>>

ContinueTwice(name, error) ==
    /\ req' = [req EXCEPT !.evaluated = Append(Append(@, name), name),
                          !.idx = IF error = NoError THEN @ + 2 ELSE @,
                          !.pc = IF error = NoError THEN "guards" ELSE "denied",
                          !.error = error]
    /\ UNCHANGED <<store, op, args, outcome, queries, calls>>

Continue(name, error) ==
    /\ req' = [req EXCEPT !.evaluated = Append(@, name),
                          !.idx = IF error = NoError THEN @ + 1 ELSE @,
                          !.pc = IF error = NoError THEN "guards" ELSE "denied",
                          !.error = error]
    /\ UNCHANGED <<store, op, args, outcome, queries, calls>>

AtGuard(name) ==
    /\ req.pc = "guards"
    /\ req.idx <= Len(req.guards)
    /\ req.guards[req.idx] = name

EnsureLoggedIn ==
    /\ AtGuard("ensureLoggedIn")
    /\ Continue("ensureLoggedIn", ensureLoggedIn(req.user, req.username))

EnsureIsAdmin ==
    /\ AtGuard("ensureIsAdmin")
    /\ Continue("ensureIsAdmin", ensureIsAdmin(req.user, req.username))

EnsureAdminOrRightUser ==
    /\ AtGuard("ensureAdminOrRightUser")
    /\ Continue("ensureAdminOrRightUser", ensureAdminOrRightUser(req.user, req.username))

HandlerData(username) == << <<T_name, username>> >>

Handler ==
    LET call == CompanyUpdateCall(HandleC1, HandlerData(req.username))
    IN  /\ req.pc = "guards"
        /\ req.idx > Len(req.guards)
        /\ req' = [req EXCEPT !.pc = "allowed", !.handled = TRUE]
        /\ op' = "Company.update"
        /\ args' = [id |-> HandleC1, data |-> HandlerData(req.username)]
        /\ queries' = call.queries
        /\ companies' = call.table
        /\ outcome' = call.outcome
        /\ UNCHANGED <<jobs, jobSeq, calls>>

GuardLists == SeqsOver(GuardNames, MaxGuards)

NextAuth ==
    \/ \E header \in Headers, username \in {U1, U2}, guards \in GuardLists :
            NewRequest(header, username, guards)
    \/ AuthenticateJWT
    \/ EnsureLoggedIn
    \/ EnsureIsAdmin
    \/ EnsureAdminOrRightUser
    \/ Handler

SpecAuth == Init /\ [][NextAuth]_vars

(***************************************************************************)
(* The framework runs the middleware of a request synchronously, one after *)
(* the other: authenticateJWT and each guard are taken once they are due.  *)
(* The handler awaits the store and is not assumed to end.                 *)
(***************************************************************************)
SpecAuthLive ==
    /\ Init
    /\ [][NextAuth]_vars
    /\ WF_vars(AuthenticateJWT)
    /\ WF_vars(EnsureLoggedIn)
    /\ WF_vars(EnsureIsAdmin)
    /\ WF_vars(EnsureAdminOrRightUser)

(***************************************************************************)
(* Two calls of Company.create in flight at once.  Each call is its two    *)
(* awaited statements, the duplicate check and the INSERT, and the store   *)
(* executes one statement at a time; between them the other call may run.  *)
(* Here op, args and outcome hold, for each call, the statement it is at,  *)
(* its argument and its result, and queries is the store's log.  The       *)
(* INSERT of a handle that is already in the table violates the primary    *)
(* key: the store rejects it with its own error.                           *)
(***************************************************************************)
Procs == {"first", "second"}

InitConc ==
    /\ StoreInit
    /\ op = [p \in Procs |-> "duplicateCheck"]
    /\ args \in [Procs ->
            {[data |-> [NewCompany(handle) EXCEPT ![2] = <<T_name, name>>]] :
                handle \in {Nope, HandleC1, Str(<<"n", "e", "w">>)},
                name \in {Str(<<"N">>), Str(<<"M">>)}}]
    /\ outcome = [p \in Procs |-> Returned(<<>>)]
    /\ queries = <<>>
    /\ calls = 0
    /\ req = NoRequest

CreateDuplicateCheckSkipped(p) ==
    /\ op[p] = "duplicateCheck"
    /\ op' = [op EXCEPT ![p] = "insert"]
    /\ UNCHANGED <<store, args, outcome, queries, calls, req>>

CreateDuplicateCheck(p) ==
    /\ op[p] = "duplicateCheck"
    /\ queries' = Append(queries,
            Statement(<<"SELECT handle FROM companies WHERE handle = $1">>,
                      <<Prop(args[p].data, T_handle)>>))
    /\ IF \E r \in companies : r[T_handle] = Prop(args[p].data, T_handle)
       THEN /\ op' = [op EXCEPT ![p] = "done"]
            /\ outcome' = [outcome EXCEPT ![p] = Threw("BadRequestError")]
       ELSE /\ op' = [op EXCEPT ![p] = "insert"]
            /\ UNCHANGED outcome
    /\ UNCHANGED <<store, args, calls, req>>

CreateInsert(p) ==
    /\ op[p] = "insert"
    /\ op' = [op EXCEPT ![p] = "done"]
    /\ queries' = Append(queries,
            Statement(
                <<"INSERT INTO companies (handle, name, description, num_employees, logo_url) VALUES ($1, $2, $3, $4, $5) RETURNING ",
                  CompanyReturning>>,
                [i \in 1..5 |-> args[p].data[i][2]]))
    /\ IF ViolatesPrimaryKey(companies, T_handle, Prop(args[p].data, T_handle))
       THEN /\ outcome' = [outcome EXCEPT ![p] = Threw("StoreError")]
            /\ UNCHANGED companies
       ELSE /\ companies' = companies \cup
                    {CompanyRow(args[p].data[1][2], args[p].data[2][2], args[p].data[3][2],
                                args[p].data[4][2], args[p].data[5][2])}
            /\ outcome' = [outcome EXCEPT ![p] = Returned(args[p].data)]
    /\ UNCHANGED <<jobs, jobSeq, args, calls, req>>

NextConc == \E p \in Procs : CreateDuplicateCheck(p) \/ CreateInsert(p)

SpecConc == InitConc /\ [][NextConc]_vars

(***************************************************************************)
(* Reading a statement back: the placeholders of a text in order of        *)
(* appearance, the pieces of a text between separators, the WHERE fragment *)
(* of a SELECT, the clauses of a fragment.                                 *)
(***************************************************************************)
RECURSIVE PlaceholdersOf(_)
PlaceholdersOf(text) ==
    IF text = <<>> THEN <<>>
    ELSE IF Head(text) = "$"
    THEN <<ParseDigits(LeadingDigits(Tail(text)), 0)>> \o PlaceholdersOf(Tail(text))
    ELSE PlaceholdersOf(Tail(text))

RECURSIVE SplitText(_, _)
SplitText(text, sep) ==
    IF IndexOf(text, sep) = 0 THEN <<text>>
    ELSE <<SubSeq(text, 1, IndexOf(text, sep) - 1)>>
            \o SplitText(SubSeq(text, IndexOf(text, sep) + 1, Len(text)), sep)

OneTo(n) == [i \in 1..n |-> i]

WhereOf(stmt) == SubSeq(stmt.sql, 2, Len(stmt.sql) - 1)

CompanyClauses == <<"name ILIKE ", "num_employees >= ", "num_employees <= ">>

JobClauses == <<"title ILIKE ", "salary >= ", "equity > 0">>

ClausesOf(text, clauses) == SelectSeq(text, LAMBDA chunk : chunk \in Range(clauses))

Rank(clauses, chunk) == CHOOSE i \in 1..Len(clauses) : clauses[i] = chunk

Emits(text, clause) == \E i \in 1..Len(text) : text[i] = clause

FindAllQueried(name) == op = name /\ Len(queries) = 1

(***************************************************************************)
(* C1: for a non-empty payload sqlForPartialUpdate returns the pieces      *)
(* "<column>"=$i joined with ", ", one per payload entry in the payload's  *)
(* order, i the entry's 1-based position and <column> the field map's      *)
(* entry for the field or the field name when the map has none; values is  *)
(* the payload's values in the same order, so there are as many            *)
(* placeholders as values.                                                 *)
(***************************************************************************)
ExpectedPiece(jsToSql, field, i) ==
    <<"\"">> \o (IF HasKey(jsToSql, field) THEN Prop(jsToSql, field).s ELSE field)
        \o <<"\"", "=", "$">> \o NumberToText(i)

C1_SetColsAndValues ==
    (op = "sqlForPartialUpdate" /\ args.dataToUpdate # EmptyObject) =>
        /\ outcome.error = NoError
        /\ LET data == args.dataToUpdate
               pieces == SplitText(outcome.value.setCols, ", ")
           IN  /\ Len(pieces) = Len(data)
               /\ \A i \in 1..Len(data) :
                    pieces[i] = ExpectedPiece(args.jsToSql, data[i][1], i)
               /\ outcome.value.values = [i \in 1..Len(data) |-> data[i][2]]
               /\ PlaceholdersOf(outcome.value.setCols) = OneTo(Len(outcome.value.values))

C1_Witness ==
    /\ op = "sqlForPartialUpdate"
    /\ args.dataToUpdate = << <<T_firstName, Str(<<"B">>)>>, <<T_age, Num(5)>> >>
    /\ args.jsToSql = << <<T_firstName, Str(T_first_name)>> >>
    /\ Render(outcome.value.setCols) = "\"first_name\"=$1, \"age\"=$2"
    /\ outcome.value.values = <<Str(<<"B">>), Num(5)>>

(***************************************************************************)
(* C2: Company.update and Job.update called with an empty payload, for an  *)
(* identity in the store or not, fail with BadRequestError, execute no     *)
(* statement and leave the store unchanged.                                *)
(***************************************************************************)
C2_EmptyPayloadRejected ==
    [][(calls' # calls /\ op' \in {"Company.update", "Job.update"}
            /\ args'.data = EmptyObject) =>
        (outcome'.error = "BadRequestError" /\ queries' = <<>> /\ store' = store)]_vars

C2_Witness ==
    /\ op = "Job.update"
    /\ args.data = EmptyObject
    /\ \E r \in jobs : r[T_id] = args.id
    /\ outcome.error = "BadRequestError"
    /\ queries = <<>>

(***************************************************************************)
(* C3: in every query of Company.findAll and Job.findAll the placeholders  *)
(* of the WHERE fragment are $1..$k in order of appearance, k the length   *)
(* of the value list; the equity predicate has no placeholder and no       *)
(* value.                                                                  *)
(***************************************************************************)
C3_PlaceholdersContiguous ==
    \A name \in {"Company.findAll", "Job.findAll"} :
        FindAllQueried(name) =>
            LET where == WhereOf(queries[1])
                values == queries[1].values
            IN  /\ PlaceholdersOf(where) = OneTo(Len(values))
                /\ \A i \in 1..Len(where) :
                        where[i] = "equity > 0" => (i = Len(where) \/ where[i + 1] # "$")
                /\ Len(values) =
                        Len(SelectSeq(ClausesOf(where, CompanyClauses \o JobClauses),
                                      LAMBDA chunk : chunk # "equity > 0"))

C3_Witness ==
    /\ FindAllQueried("Job.findAll")
    /\ Render(WhereOf(queries[1])) = "WHERE title ILIKE $1 AND salary >= $2 AND equity > 0"
    /\ queries[1].values = <<Str(<<"%", "a", "%">>), Num(3)>>

(***************************************************************************)
(* C4: the predicates of a findAll query appear in the entity's fixed      *)
(* order whatever the order of the criteria in the argument, the first     *)
(* prefixed with "WHERE ", the later ones with " AND "; with no predicate  *)
(* (no criteria, or no argument) fragment and values are empty.            *)
(* minEmployees=3 gives "WHERE num_employees >= $1" with [3], and with     *)
(* maxEmployees=5 "WHERE num_employees >= $1 AND num_employees <= $2"      *)
(* with [3,5].                                                             *)
(***************************************************************************)
FixedOrder(where, clauses) ==
    LET emitted == ClausesOf(where, clauses)
    IN  /\ \A i, j \in 1..Len(emitted) :
                i < j => Rank(clauses, emitted[i]) < Rank(clauses, emitted[j])
        /\ \A i \in 1..Len(where) :
                where[i] \in Range(clauses) =>
                    /\ i > 1
                    /\ where[i - 1] = (IF \E j \in 1..(i - 1) : where[j] \in Range(clauses)
                                       THEN " AND " ELSE "WHERE ")
        /\ Len(SelectSeq(where, LAMBDA chunk : chunk \in {"WHERE ", " AND "}))
                = Len(emitted)
        /\ emitted = <<>> => where = <<>>

SameEntries(obj, entries) == Len(obj) = Cardinality(entries) /\ Range(obj) = entries

C4_FixedOrderAndPrefixes ==
    /\ FindAllQueried("Company.findAll") =>
        /\ FixedOrder(WhereOf(queries[1]), CompanyClauses)
        /\ WhereOf(queries[1]) = <<>> => queries[1].values = <<>>
        /\ ~args.given => WhereOf(queries[1]) = <<>>
        /\ (args.given /\ SameEntries(args.filterOptions, {<<T_minEmployees, Num(3)>>})) =>
            /\ Render(WhereOf(queries[1])) = "WHERE num_employees >= $1"
            /\ queries[1].values = <<Num(3)>>
        /\ (args.given /\ SameEntries(args.filterOptions,
                {<<T_minEmployees, Num(3)>>, <<T_maxEmployees, Num(5)>>})) =>
            /\ Render(WhereOf(queries[1]))
                    = "WHERE num_employees >= $1 AND num_employees <= $2"
            /\ queries[1].values = <<Num(3), Num(5)>>
    /\ FindAllQueried("Job.findAll") =>
        /\ FixedOrder(WhereOf(queries[1]), JobClauses)
        /\ WhereOf(queries[1]) = <<>> => queries[1].values = <<>>
        /\ ~args.given => WhereOf(queries[1]) = <<>>

C4_Witness ==
    /\ FindAllQueried("Company.findAll")
    /\ args.given
    /\ args.filterOptions = << <<T_maxEmployees, Num(5)>>, <<T_minEmployees, Num(3)>> >>
    /\ Render(WhereOf(queries[1])) = "WHERE num_employees >= $1 AND num_employees <= $2"
    /\ queries[1].values = <<Num(3), Num(5)>>

(***************************************************************************)
(* C5: in every query of a findAll a criterion that is absent or undefined *)
(* contributes neither a predicate nor a value.  Company.findAll emits     *)
(* exactly one predicate and one value for every criterion that is not     *)
(* undefined.  Job.findAll emits the title and minSalary predicates, each  *)
(* once with one value, exactly when the criterion is truthy (a non-empty  *)
(* string, a non-zero number), and the equity predicate exactly when       *)
(* hasEquity is the string "true".                                         *)
(***************************************************************************)
CompanyKeys == <<T_name, T_minEmployees, T_maxEmployees>>

JobKeys == <<T_title, T_minSalary, T_hasEquity>>

Count(text, chunk) == Len(SelectSeq(text, LAMBDA c : c = chunk))

C5_ClausePerSuppliedCriterion ==
    /\ FindAllQueried("Company.findAll") =>
        LET f == FilterOptions(args)
            where == WhereOf(queries[1])
        IN  /\ \A i \in 1..3 :
                    Count(where, CompanyClauses[i])
                        = (IF Prop(f, CompanyKeys[i]) # Undefined THEN 1 ELSE 0)
            /\ Len(queries[1].values)
                    = Cardinality({i \in 1..3 : Prop(f, CompanyKeys[i]) # Undefined})
    /\ FindAllQueried("Job.findAll") =>
        LET f == FilterOptions(args)
            where == WhereOf(queries[1])
        IN  /\ \A i \in 1..3 : Prop(f, JobKeys[i]) = Undefined => Count(where, JobClauses[i]) = 0
            /\ \A i \in 1..2 :
                    Count(where, JobClauses[i]) = (IF Truthy(Prop(f, JobKeys[i])) THEN 1 ELSE 0)
            /\ Count(where, "equity > 0")
                    = (IF Prop(f, T_hasEquity) = Str(T_true) THEN 1 ELSE 0)
            /\ Len(queries[1].values)
                    = Cardinality({i \in 1..2 : Truthy(Prop(f, JobKeys[i]))})

C5_Witness ==
    /\ FindAllQueried("Job.findAll")
    /\ args.given
    /\ Prop(args.filterOptions, T_title) = Str(<<>>)
    /\ Prop(args.filterOptions, T_minSalary) = Num(3)
    /\ Prop(args.filterOptions, T_hasEquity) = Str(T_false)
    /\ Render(WhereOf(queries[1])) = "WHERE salary >= $1"
    /\ queries[1].values = <<Num(3)>>

(* C5 as stated: a predicate for a criterion if and only if it is present, *)
(* whatever string or number it is supplied with.                          *)
C5_ClauseIffPresent ==
    /\ FindAllQueried("Company.findAll") =>
        \A i \in 1..3 :
            LET v == Prop(FilterOptions(args), CompanyKeys[i])
                n == Count(WhereOf(queries[1]), CompanyClauses[i])
            IN  (v = Undefined => n = 0) /\ (v.t \in {"string", "number"} => n = 1)
    /\ FindAllQueried("Job.findAll") =>
        \A i \in 1..3 :
            LET v == Prop(FilterOptions(args), JobKeys[i])
                n == Count(WhereOf(queries[1]), JobClauses[i])
            IN  (v = Undefined => n = 0) /\ (v.t \in {"string", "number"} => n = 1)

(***************************************************************************)
(* C6: a call of Company.findAll with minEmployees and maxEmployees both   *)
(* present (numbers or numeric strings) and minEmployees greater than      *)
(* maxEmployees fails with BadRequestError and executes no query.          *)
(***************************************************************************)
IsNumeric(v) ==
    \/ v.t = "number"
    \/ v.t = "string" /\ v.s # <<>> /\ ~IsNaN(ToNumber(v))

C6_MinAboveMaxRejected ==
    (/\ op = "Company.findAll"
     /\ IsNumeric(Prop(FilterOptions(args), T_minEmployees))
     /\ IsNumeric(Prop(FilterOptions(args), T_maxEmployees))
     /\ ToNumber(Prop(FilterOptions(args), T_minEmployees)).n
            > ToNumber(Prop(FilterOptions(args), T_maxEmployees)).n) =>
        (outcome.error = "BadRequestError" /\ queries = <<>>)

(***************************************************************************)
(* C7: a call of Job.findAll (minSalary) or Company.findAll (minEmployees, *)
(* maxEmployees) whose numeric criterion is present but not coercible to a *)
(* number fails with BadRequestError and executes no query.                *)
(***************************************************************************)
NotCoercible(v) == v # Undefined /\ IsNaN(ToNumber(v))

C7_NonNumericRejected ==
    /\ (/\ op = "Job.findAll"
        /\ NotCoercible(Prop(FilterOptions(args), T_minSalary))) =>
            (outcome.error = "BadRequestError" /\ queries = <<>>)
    /\ (/\ op = "Company.findAll"
        /\ \/ NotCoercible(Prop(FilterOptions(args), T_minEmployees))
           \/ NotCoercible(Prop(FilterOptions(args), T_maxEmployees))) =>
            (outcome.error = "BadRequestError" /\ queries = <<>>)

(***************************************************************************)
(* C8: a query of Job.findAll holds the literal predicate "equity > 0",    *)
(* once and with no bound value, exactly when the hasEquity criterion is   *)
(* the string "true"; it holds no equity predicate when hasEquity is       *)
(* absent, falsy, or any other value (true, 1, "false").                   *)
(***************************************************************************)
C8_EquityExactlyForStringTrue ==
    FindAllQueried("Job.findAll") =>
        LET hasEquity == Prop(FilterOptions(args), T_hasEquity)
            where == WhereOf(queries[1])
        IN  /\ Emits(where, "equity > 0") <=> hasEquity = Str(T_true)
            /\ Count(where, "equity > 0") <= 1
            /\ ~Truthy(hasEquity) => ~Emits(where, "equity > 0")
            /\ Emits(where, "equity > 0") => where[Len(where)] = "equity > 0"

C8_Witness ==
    /\ FindAllQueried("Job.findAll")
    /\ args.given
    /\ args.filterOptions = << <<T_hasEquity, Str(T_true)>> >>
    /\ Render(WhereOf(queries[1])) = "WHERE equity > 0"
    /\ queries[1].values = <<>>

(* C8 as stated: the equity predicate exactly when hasEquity is truthy.    *)
C8_EquityExactlyWhenTruthy ==
    FindAllQueried("Job.findAll") =>
        (Emits(WhereOf(queries[1]), "equity > 0")
            <=> Truthy(Prop(FilterOptions(args), T_hasEquity)))

(***************************************************************************)
(* C9: a request without a verified identity whose guard list starts with  *)
(* ensureLoggedIn is denied with UnauthorizedError at that guard, whatever *)
(* guards follow: no later guard is evaluated, the handler and its update  *)
(* do not run, and the store is unchanged.  A request is allowed only if   *)
(* every guard of its list was evaluated and passed.                       *)
(***************************************************************************)
Evaluating == req.pc \in {"guards", "denied", "allowed"}

C9_DeniedAtEnsureLoggedIn ==
    /\ [](/\ (/\ Evaluating
              /\ ~req.user.present
              /\ req.guards # <<>>
              /\ req.guards[1] = "ensureLoggedIn"
              /\ req.evaluated # <<>>) =>
                    /\ req.pc = "denied"
                    /\ req.error = "UnauthorizedError"
                    /\ req.evaluated = <<"ensureLoggedIn">>
                    /\ ~req.handled
          /\ req.pc = "allowed" =>
                    /\ req.evaluated = req.guards
                    /\ req.idx = Len(req.guards) + 1
                    /\ req.error = NoError
                    /\ req.handled
                    /\ (\E i \in 1..Len(req.guards) : req.guards[i] = "ensureLoggedIn")
                            => req.user.present)
    /\ [][~req'.handled => (store' = store /\ queries' = queries)]_vars

C9_Witness ==
    /\ req.pc = "denied"
    /\ req.header.present
    /\ ~req.user.present
    /\ req.guards = <<"ensureLoggedIn", "ensureIsAdmin">>
    /\ req.error = "UnauthorizedError"
    /\ req.evaluated = <<"ensureLoggedIn">>
    /\ ~req.handled
    /\ \E r \in companies : r[T_handle] = HandleC1 /\ r[T_name] = Str(<<"N">>)

(***************************************************************************)
(* C10: with an identity ensureIsAdmin passes if the identity carries a    *)
(* truthy admin flag and otherwise fails with ForbiddenError and no other  *)
(* error; with no identity it never passes, and it fails with a TypeError  *)
(* rather than ForbiddenError.                                             *)
(***************************************************************************)
Passed(i) == req.idx > i

IsAdmin(user) == user.present /\ Truthy(Prop(user.payload, T_isAdmin))

C10_EnsureIsAdminOutcome ==
    Evaluating =>
        \A i \in 1..Len(req.evaluated) :
            req.evaluated[i] = "ensureIsAdmin" =>
                /\ Passed(i) <=> IsAdmin(req.user)
                /\ ~Passed(i) =>
                    /\ req.pc = "denied"
                    /\ req.error = (IF req.user.present THEN "ForbiddenError"
                                    ELSE "TypeError")

C10_Witness ==
    /\ req.pc = "denied"
    /\ ~req.user.present
    /\ req.guards[1] = "ensureIsAdmin"
    /\ req.evaluated = <<"ensureIsAdmin">>
    /\ req.error = "TypeError"
    /\ ~req.handled

(* C10 as stated: every failure of ensureIsAdmin is a ForbiddenError, for  *)
(* no identity as for a non-admin identity.                                *)
C10_ForbiddenForEveryIdentityState ==
    Evaluating =>
        \A i \in 1..Len(req.evaluated) :
            req.evaluated[i] = "ensureIsAdmin" =>
                /\ Passed(i) <=> IsAdmin(req.user)
                /\ ~Passed(i) => (req.pc = "denied" /\ req.error = "ForbiddenError")

(***************************************************************************)
(* C11: for a request with an identity, ensureAdminOrRightUser passes      *)
(* exactly when the identity carries the admin flag or its username is the *)
(* username of the request, and otherwise fails with ForbiddenError.  The  *)
(* non-admin u1 with guards [ensureLoggedIn, ensureAdminOrRightUser] is    *)
(* allowed against u1 and denied with ForbiddenError against u2.           *)
(***************************************************************************)
IsRightUser(user, username) == Prop(user.payload, T_username) = username

NonAdminU1 == User(<< <<T_username, U1>>, <<T_isAdmin, Bool(FALSE)>> >>)

C11_AdminOrRightUser ==
    Evaluating =>
        /\ \A i \in 1..Len(req.evaluated) :
                (req.evaluated[i] = "ensureAdminOrRightUser" /\ req.user.present) =>
                    /\ Passed(i) <=> (IsAdmin(req.user) \/ IsRightUser(req.user, req.username))
                    /\ ~Passed(i) => (req.pc = "denied" /\ req.error = "ForbiddenError")
        /\ (/\ req.pc \in {"allowed", "denied"}
            /\ req.user = NonAdminU1
            /\ req.guards = <<"ensureLoggedIn", "ensureAdminOrRightUser">>) =>
                /\ req.username = U1 => req.pc = "allowed"
                /\ req.username = U2 => (req.pc = "denied" /\ req.error = "ForbiddenError")

C11_Witness ==
    /\ req.pc = "allowed"
    /\ req.user = NonAdminU1
    /\ req.username = U1
    /\ req.guards = <<"ensureLoggedIn", "ensureAdminOrRightUser">>
    /\ req.evaluated = req.guards
    /\ req.handled

(***************************************************************************)
(* C12: authenticateJWT always continues to the guards without an error,   *)
(* for no header, a malformed token, a token that fails verification and a *)
(* valid token alike; the request's identity is the token's payload if and *)
(* only if a token was supplied and verified, and otherwise the request    *)
(* carries no identity.                                                    *)
(***************************************************************************)
Verified(header) == header.present /\ header.wellFormed /\ header.signed

C12_AuthenticateNeverFails ==
    [][req.pc = "authenticateJWT" =>
        /\ req'.pc = "guards"
        /\ req'.error = NoError
        /\ req'.evaluated = <<>>
        /\ req'.user.present <=> Verified(req.header)
        /\ Verified(req.header) => req'.user.payload = req.header.payload
        /\ store' = store]_vars

C12_Witness ==
    /\ req.pc = "guards"
    /\ req.evaluated = <<>>
    /\ req.idx = 1
    /\ req.header.present
    /\ req.header.wellFormed
    /\ ~req.header.signed
    /\ ~req.user.present
    /\ req.error = NoError

(***************************************************************************)
(* C13: Company.update and Job.update called with a non-empty payload and  *)
(* an identity that is not in the store fail with NotFoundError and leave  *)
(* every row of the store unchanged.                                       *)
(***************************************************************************)
Called(name) == calls' # calls /\ op' = name

HasCompany(handle) == \E r \in companies : r[T_handle] = handle

HasJob(id) == \E r \in jobs : r[T_id] = id

C13_UpdateAbsentNotFound ==
    [][/\ (Called("Company.update") /\ args'.data # EmptyObject /\ ~HasCompany(args'.id)) =>
            (outcome'.error = "NotFoundError" /\ store' = store)
       /\ (Called("Job.update") /\ args'.data # EmptyObject /\ ~HasJob(args'.id)) =>
            (outcome'.error = "NotFoundError" /\ store' = store)]_vars

C13_Witness ==
    /\ op = "Company.update"
    /\ args.id = Nope
    /\ Len(args.data) = 2
    /\ ~HasCompany(Nope)
    /\ Len(queries) = 1
    /\ outcome.error = "NotFoundError"

(***************************************************************************)
(* C14: Company.create called with a handle that is already in the store   *)
(* fails with BadRequestError (duplicate company), issues no INSERT and    *)
(* leaves the row with that handle and every other row unchanged.          *)
(***************************************************************************)
C14_DuplicateCreateRejected ==
    [][(Called("Company.create") /\ HasCompany(Prop(args'.data, T_handle))) =>
        /\ outcome'.error = "BadRequestError"
        /\ Len(queries') = 1
        /\ queries'[1].sql = <<"SELECT handle FROM companies WHERE handle = $1">>
        /\ store' = store]_vars

C14_Witness ==
    /\ op = "Company.create"
    /\ Prop(args.data, T_handle) = HandleC1
    /\ outcome.error = "BadRequestError"
    /\ \E r \in companies : r[T_handle] = HandleC1 /\ r[T_name] = Str(<<"M">>)
    /\ Cardinality(companies) = 2

JobsOf(handle) == {j \in jobs : j[T_company_handle] = handle}

C16_GetAggregatesJobs ==
    op = "Company.get" =>
        IF HasCompany(args.id)
        THEN /\ outcome.error = NoError
             /\ LET listed == Prop(outcome.value, T_jobs)
                IN  /\ Len(listed) = Cardinality(JobsOf(args.id))
                    /\ \A i \in 1..Len(listed) :
                            \E j \in JobsOf(args.id) :
                                /\ Prop(listed[i], T_id) = j[T_id]
                                /\ Prop(listed[i], T_title) = j[T_title]
                    /\ JobsOf(args.id) = {} => listed = <<>>
        ELSE outcome.error = "NotFoundError"

(***************************************************************************)
(* C17: no Company.update or Job.update changes the identity of a row: the *)
(* handles of the companies and the ids of the jobs are the same after the *)
(* call as before it, also when the payload names the identity field.      *)
(***************************************************************************)
C17_IdentityImmutable ==
    [][(Called("Company.update") \/ Called("Job.update")) =>
        /\ {r[T_handle] : r \in companies'} = {r[T_handle] : r \in companies}
        /\ {r[T_id] : r \in jobs'} = {r[T_id] : r \in jobs}]_vars

(***************************************************************************)
(* C19: Company.update and Job.update on an identity in the store, with a  *)
(* non-empty payload over the updatable fields, set exactly the payload's  *)
(* fields to the payload's values (null included), leave the record's      *)
(* other fields and every other record unchanged, and return the record as *)
(* stored after the update.                                                *)
(***************************************************************************)
ColumnOf(field) ==
    IF field = T_numEmployees THEN T_num_employees
    ELSE IF field = T_logoUrl THEN T_logo_url
    ELSE IF field = T_companyHandle THEN T_company_handle
    ELSE field

Updated(old, data) ==
    [c \in DOMAIN old |->
        IF \E i \in 1..Len(data) : ColumnOf(data[i][1]) = c
        THEN data[CHOOSE i \in 1..Len(data) : ColumnOf(data[i][1]) = c][2]
        ELSE old[c]]

ReturnsRow(value, row, fields) ==
    /\ Len(value) = Len(fields)
    /\ \A i \in 1..Len(fields) :
            value[i][1] = fields[i] /\ value[i][2] = row[ColumnOf(fields[i])]

C19_UpdateSetsExactlyPayload ==
    [][/\ (/\ Called("Company.update")
           /\ args'.data # EmptyObject
           /\ ~HasKey(args'.data, T_handle)
           /\ HasCompany(args'.id)) =>
                \E old \in companies :
                    /\ old[T_handle] = args'.id
                    /\ companies' = (companies \ {old}) \cup {Updated(old, args'.data)}
                    /\ Cardinality(companies') = Cardinality(companies)
                    /\ outcome'.error = NoError
                    /\ ReturnsRow(outcome'.value, Updated(old, args'.data),
                                  <<T_handle, T_name, T_description, T_numEmployees,
                                    T_logoUrl>>)
                    /\ jobs' = jobs
       /\ (/\ Called("Job.update")
           /\ args'.data # EmptyObject
           /\ ~HasKey(args'.data, T_id)
           /\ HasJob(args'.id)) =>
                \E old \in jobs :
                    /\ old[T_id] = args'.id
                    /\ jobs' = (jobs \ {old}) \cup {Updated(old, args'.data)}
                    /\ Cardinality(jobs') = Cardinality(jobs)
                    /\ outcome'.error = NoError
                    /\ ReturnsRow(outcome'.value, Updated(old, args'.data),
                                  <<T_id, T_title, T_salary, T_equity, T_companyHandle>>)
                    /\ companies' = companies]_vars

C19_Witness ==
    /\ op = "Company.update"
    /\ args.id = HandleC1
    /\ args.data = << <<T_numEmployees, Num(7)>>, <<T_name, Null>> >>
    /\ outcome.error = NoError
    /\ Prop(outcome.value, T_numEmployees) = Num(7)
    /\ Prop(outcome.value, T_name) = Null
    /\ Prop(outcome.value, T_description) = Str(<<"D">>)
    /\ \E r \in companies :
            /\ r[T_handle] = HandleC1 /\ r[T_num_employees] = Num(7) /\ r[T_name] = Null
            /\ r[T_description] = Str(<<"D">>)
    /\ \E r \in companies : r[T_handle] = HandleC2 /\ r[T_name] = Str(<<"N">>)

(***************************************************************************)
(* C20: the statement Company.update and Job.update build from a payload   *)
(* of n entries uses $1..$n in its SET fragment and $(n+1) in its identity *)
(* predicate, and its value list is the payload's n values followed by the *)
(* identity: the placeholders are contiguous from 1 and as many as the     *)
(* values, n + 1.                                                          *)
(***************************************************************************)
SetFragment(sql) == SubSeq(sql, 1, IndexOf(sql, " WHERE ") - 1)

IdentityPredicate(sql) ==
    SubSeq(sql, IndexOf(sql, " WHERE "), IndexOf(sql, " RETURNING ") - 1)

C20_UpdatePlaceholders ==
    (op \in {"Company.update", "Job.update"} /\ args.data # EmptyObject) =>
        /\ Len(queries) = 1
        /\ LET n == Len(args.data)
               sql == queries[1].sql
           IN  /\ PlaceholdersOf(SetFragment(sql)) = OneTo(n)
               /\ PlaceholdersOf(IdentityPredicate(sql)) = <<n + 1>>
               /\ PlaceholdersOf(sql) = OneTo(n + 1)
               /\ queries[1].values = [i \in 1..(n + 1) |->
                        IF i <= n THEN args.data[i][2] ELSE args.id]
               /\ Len(queries[1].values) = n + 1

C20_Witness ==
    /\ op = "Job.update"
    /\ args.id = Num(1)
    /\ args.data = << <<T_title, Str(<<"k">>)>>, <<T_salary, Null>> >>
    /\ Render(SetFragment(queries[1].sql)) = "UPDATE jobs SET \"title\"=$1, \"salary\"=$2"
    /\ Render(IdentityPredicate(queries[1].sql)) = " WHERE id = $3"
    /\ queries[1].values = <<Str(<<"k">>), Null, Num(1)>>

(***************************************************************************)
(* C18: when two concurrent Company.create calls with the same handle, on  *)
(* a store that does not hold it, have both ended, exactly one has         *)
(* returned the new record and the store holds exactly one row for the     *)
(* handle, the winner's.  Both calls ran their duplicate check.  The other *)
(* call has failed: with BadRequestError when its duplicate check ran      *)
(* after the winner's INSERT (one INSERT reached the store), and with the  *)
(* store's own constraint error when both checks ran before either INSERT  *)
(* (two INSERTs reached the store).                                        *)
(***************************************************************************)
SameNewHandle ==
    /\ \A p \in Procs : op[p] = "done"
    /\ Prop(args["first"].data, T_handle) = Prop(args["second"].data, T_handle)
    /\ Prop(args["first"].data, T_handle) \notin {HandleC1, HandleC2}

Inserts == SelectSeq(queries, LAMBDA stmt : Len(stmt.values) = 5)

C18_OneCreateWinsOtherFails ==
    SameNewHandle =>
        /\ Len(queries) - Len(Inserts) = 2
        /\ \E p \in Procs :
                /\ outcome[p] = Returned(args[p].data)
                /\ \E r \in companies :
                        /\ r[T_handle] = Prop(args[p].data, T_handle)
                        /\ r[T_name] = Prop(args[p].data, T_name)
                /\ \A q \in Procs \ {p} :
                        /\ outcome[q].error \in {"BadRequestError", "StoreError"}
                        /\ outcome[q].error = "BadRequestError" <=> Len(Inserts) = 1
                        /\ outcome[q].error = "StoreError" <=> Len(Inserts) = 2
        /\ Cardinality({r \in companies :
                            r[T_handle] = Prop(args["first"].data, T_handle)}) = 1

C18_Witness ==
    /\ SameNewHandle
    /\ Prop(args["first"].data, T_name) # Prop(args["second"].data, T_name)
    /\ outcome["second"] = Returned(args["second"].data)
    /\ outcome["first"].error = "StoreError"
    /\ Len(Inserts) = 2
    /\ Cardinality(companies) = 3

(* C18 as stated: the call that does not win fails with BadRequestError    *)
(* and with no other error.                                                *)
C18_OneCreateWins ==
    SameNewHandle =>
        /\ \E p \in Procs :
                /\ outcome[p] = Returned(args[p].data)
                /\ \A q \in Procs \ {p} : outcome[q].error = "BadRequestError"
        /\ Cardinality({r \in companies :
                            r[T_handle] = Prop(args["first"].data, T_handle)}) = 1

(***************************************************************************)
(* C21: the fragment sqlForPartialUpdate returns is determined by the      *)
(* payload's field names, in their order, and the field map: the call's    *)
(* fragment is the fragment of every payload with the same field names in  *)
(* the same order, whatever its values.  The values are returned in the    *)
(* value list, one per placeholder, and no value is part of the fragment.  *)
(***************************************************************************)
UpdatePayloads == ObjectsFrom(UpdateEntries, MaxPayload)

SameFieldNames(data) == {d \in UpdatePayloads : ObjectKeys(d) = ObjectKeys(data)}

C21_FragmentIgnoresValues ==
    (op = "sqlForPartialUpdate" /\ args.dataToUpdate # EmptyObject) =>
        /\ outcome.error = NoError
        /\ \A d \in SameFieldNames(args.dataToUpdate) :
                sqlForPartialUpdate(d, args.jsToSql).setCols = outcome.value.setCols
        /\ outcome.value.values = ObjectValues(args.dataToUpdate)
        /\ PlaceholdersOf(outcome.value.setCols) = OneTo(Len(args.dataToUpdate))

C21_Witness ==
    /\ op = "sqlForPartialUpdate"
    /\ args.dataToUpdate = << <<T_name, Null>>, <<T_numEmployees, Str(<<"B">>)>> >>
    /\ args.jsToSql = << <<T_numEmployees, Str(T_num_employees)>> >>
    /\ Cardinality(SameFieldNames(args.dataToUpdate)) > 1
    /\ Render(outcome.value.setCols) = "\"name\"=$1, \"num_employees\"=$2"
    /\ outcome.value.values = <<Null, Str(<<"B">>)>>

(***************************************************************************)
(* C22: every piece of the fragment sqlForPartialUpdate returns is one     *)
(* double-quoted identifier followed by =$i: it opens with a double quote, *)
(* the identifier's own double quotes are escaped by doubling, and the     *)
(* closing double quote is directly followed by =$i, so that no character  *)
(* of a field name stands outside the quoted identifier.                   *)
(***************************************************************************)
RECURSIVE Escaped(_)
Escaped(body) ==
    \/ body = <<>>
    \/ Head(body) # "\"" /\ Escaped(Tail(body))
    \/ Len(body) >= 2 /\ body[1] = "\"" /\ body[2] = "\"" /\ Escaped(Tail(Tail(body)))

QuotedIdentifierThen(piece, rest) ==
    /\ Len(piece) >= Len(rest) + 2
    /\ piece[1] = "\""
    /\ SubSeq(piece, Len(piece) - Len(rest), Len(piece)) = <<"\"">> \o rest
    /\ Escaped(SubSeq(piece, 2, Len(piece) - Len(rest) - 1))

C22_ColumnsQuotedAndEscaped ==
    (op = "sqlForPartialUpdate" /\ args.dataToUpdate # EmptyObject) =>
        /\ outcome.error = NoError
        /\ Len(SplitText(outcome.value.setCols, ", ")) = Len(args.dataToUpdate)
        /\ \A i \in 1..Len(args.dataToUpdate) :
                QuotedIdentifierThen(SplitText(outcome.value.setCols, ", ")[i],
                                     <<"=", "$">> \o NumberToText(i))

(***************************************************************************)
(* C23: every evaluation of a guard invokes the continuation exactly once: *)
(* the guard is recorded once, either with no error, and the chain moves   *)
(* to the next guard, or with exactly one error (UnauthorizedError,        *)
(* ForbiddenError or the TypeError of reading a property of an absent      *)
(* identity), and the request is denied; the request's identity, guard     *)
(* list and path parameter are left unchanged.  A denied request has       *)
(* evaluated the guards up to the failing one and has not run the handler; *)
(* an allowed request has evaluated each guard of its list once, without   *)
(* error.  Every request that has entered the chain reaches Allowed (its   *)
(* guard list is exhausted without error) or Denied, never both.           *)
(***************************************************************************)
GuardErrors == {"UnauthorizedError", "ForbiddenError", "TypeError"}

GuardDue == req.pc = "guards" /\ req.idx <= Len(req.guards)

Denied == req.pc = "denied"

Allowed == req.pc = "allowed" \/ (req.pc = "guards" /\ req.idx > Len(req.guards))

C23_GuardContinuesOnceAndTerminates ==
    /\ [][GuardDue =>
            /\ req'.evaluated = Append(req.evaluated, req.guards[req.idx])
            /\ req'.user = req.user
            /\ req'.guards = req.guards
            /\ req'.username = req.username
            /\ \/ req'.error = NoError /\ req'.pc = "guards" /\ req'.idx = req.idx + 1
               \/ req'.error \in GuardErrors /\ req'.pc = "denied" /\ req'.idx = req.idx
            /\ ~req'.handled]_vars
    /\ [](req.pc = "denied" =>
            /\ req.error \in GuardErrors
            /\ req.evaluated = SubSeq(req.guards, 1, req.idx)
            /\ ~req.handled)
    /\ [](req.pc = "allowed" =>
            /\ req.error = NoError
            /\ req.evaluated = req.guards
            /\ req.handled)
    /\ [](~(Allowed /\ Denied))
    /\ (req.pc \in {"authenticateJWT", "guards"}) ~> (Allowed \/ Denied)

C23_Witness ==
    /\ req.pc = "denied"
    /\ req.guards = <<"ensureLoggedIn", "ensureAdminOrRightUser">>
    /\ req.user = NonAdminU1
    /\ req.username = U2
    /\ req.evaluated = req.guards
    /\ req.error = "ForbiddenError"
    /\ ~req.handled

====
